---- MODULE Spec2Model ----
(***************************************************************************)
(* Model of the adversarial attack engine (adversarial_attacks_refactor.py:*)
(* FGSM.attack, PGD.attack) and of the attack-augmented training and       *)
(* evaluation loops (adversarial_training.py: AdversarialAttackParameters, *)
(* AdversarialTraining, AdversarialEvaluation).                            *)
(*                                                                         *)
(* Tensors are sequences of integers on a grid: one pixel per example, one *)
(* perturbation parameter per example.  Python floats are exact rationals  *)
(* <<num, den>>.  The classifier is a black box: its gradients and its     *)
(* correct-classification counts are chosen nondeterministically, a        *)
(* gradient being remembered per point so that the network stays a         *)
(* function during one attack call.                                        *)
(***************************************************************************)
EXTENDS Integers, Sequences, FiniteSets, TLC

(***************************************************************************)
(* Bounds of the model.                                                    *)
(***************************************************************************)
\* largest minibatch size
MaxBatch == 2
\* largest denominator of proportion_attacked
MaxDen == 3
\* largest num_iterations passed to PGD.attack
MaxIter == 2
\* largest num_epochs passed to train
MaxEpochs == 2
\* largest number of minibatches the data loader yields per pass
MaxMinibatches == 2

(***************************************************************************)
(* Value domains.                                                          *)
(***************************************************************************)
\* the data source: labelled examples <<pixel, label>>
Dataset == {<<0, 1>>, <<1, 0>>}
\* gradient values the classifier can produce for one parameter
GradVals == {-2, 0, 3}
\* step_size values on the parameter grid
StepSizes == {0, 2}
\* the values perturbation.random_init() can give one parameter
FeasibleRegion == {-1, 0, 1}
\* what a (legacy) attack engine can add to one pixel
AdvDeltas == {-1, 0, 1}
VerbosityLevels == {"low", "medium", "high", "snoop"}
\* stands for Python's None
None == "None"

(***************************************************************************)
(* Exact rational arithmetic for Python's float accuracies.                *)
(***************************************************************************)
RECURSIVE GCD(_, _)
GCD(a, b) == IF b = 0 THEN a ELSE GCD(b, a % b)

Abs(x) == IF x < 0 THEN -x ELSE x

\* the rational n/d (d > 0) in lowest terms
Rat(n, d) ==
    LET g == GCD(Abs(n), d)
    IN  IF n = 0 THEN <<0, 1>> ELSE <<n \div g, d \div g>>

RatAdd(p, q) == Rat(p[1] * q[2] + q[1] * p[2], p[2] * q[2])
RatMulInt(p, n) == Rat(p[1] * n, p[2])
RatDivInt(p, n) == Rat(p[1], p[2] * n)

\* the proportions a wrapper can be built with: the rationals of [0, 1]
Proportions == {Rat(n, d) : n \in 0..MaxDen, d \in 1..MaxDen} \cap
               {p \in (0..MaxDen) \X (1..MaxDen) : p[1] <= p[2]}

\* Python's int(): truncation of a non-negative product proportion * n
IntOfProduct(p, n) == (p[1] * n) \div p[2]

(***************************************************************************)
(* State.                                                                  *)
(***************************************************************************)
VARIABLES
    \* --- the classifier -------------------------------------------------
    net_mode,       \* "train" or "eval": classifier_net.train() / .eval()
    net_weights,    \* version of the classifier's weights
    net_grad,       \* the gradients the classifier gave so far in this
                    \* attack call: <<example index, parameter>> -> gradient
    \* --- one call of FGSM.attack / PGD.attack ---------------------------
    a_pc,           \* position inside the attack call
    call,           \* its arguments
    examples,       \* the batch under attack
    perturbation,   \* [params, grad, originals]
    init_params,    \* the parameters as the threat model / random_init left them
    loss_ref,       \* loss_fxn's fixed reference batch, <<>> when released
    loss_at,        \* the perturbed batch of the last loss forward
    iter_no,        \* PGD loop counter
    made,           \* how many backward / update_params / optimizer.step /
                    \* zero_grad / forward calls this attack call made
    returned,       \* the perturbation the last call returned
    \* --- AdversarialTraining.train --------------------------------------
    t_pc, t_cfg, epoch, mb_i, loader_batch, inputs, labels, adv_data,
    checkpoints,
    \* --- AdversarialEvaluation.evaluate ---------------------------------
    e_pc, e_cfg, e_i, e_n, e_todo, validation_results, e_result, tally,
    \* --- AdversarialAttackParameters.attack bound to FGSM / PGD ---------
    w_pc,           \* position inside the wrapper's attack
    w_cfg,          \* the wrapper: proportion_attacked and attack_kwargs
    w_ret           \* what attack returned

avars == <<a_pc, call, examples, perturbation, init_params, loss_ref, loss_at,
           iter_no, made, returned, net_grad>>
tvars == <<t_pc, t_cfg, epoch, mb_i, loader_batch, inputs, labels, adv_data,
           checkpoints>>
evars == <<e_pc, e_cfg, e_i, e_n, e_todo, validation_results, e_result, tally>>
wvars == <<w_pc, w_cfg, w_ret>>
nvars == <<net_mode, net_weights>>
vars == <<nvars, avars, tvars, evars, wvars>>

(***************************************************************************)
(* The perturbation, the loss function and the classifier, as the attack   *)
(* engine uses them.                                                       *)
(***************************************************************************)
Zeros(n) == [i \in 1..n |-> 0]

Sign(g) == IF g > 0 THEN 1 ELSE IF g < 0 THEN -1 ELSE 0

\* threat_model(examples): a fresh perturbation of the batch's shape, the
\* identity perturbation, with no gradient yet and no originals attached
ThreatModel(ex) ==
    [params |-> Zeros(Len(ex)), grad |-> Zeros(Len(ex)), originals |-> <<>>]

\* perturbation(examples): the perturbed batch
Apply(pert, ex) == [i \in 1..Len(ex) |-> ex[i] + pert.params[i]]

\* perturbation.update_params(step_fxn): every parameter moves by step_fxn
\* of its gradient; steps[i] is step_fxn(grad[i])
update_params(pert, steps) ==
    [pert EXCEPT !.params =
        [i \in 1..Len(pert.params) |-> pert.params[i] + steps[i]]]

\* perturbation.zero_grad()
zero_grad(pert) == [pert EXCEPT !.grad = Zeros(Len(pert.params))]

\* perturbation.random_init(): any point of the feasible region
random_init(pert) ==
    {[pert EXCEPT !.params = q] : q \in [1..Len(pert.params) -> FeasibleRegion]}

\* perturbation.attach_originals(examples)
attach_originals(pert, ex) == [pert EXCEPT !.originals = ex]

\* optimizer.step() of optim.Adam(perturbation.parameters(), lr=0.0005):
\* every parameter with a non-zero gradient moves one learning-rate unit
\* against it; step_size plays no part
AdamStep(pert) ==
    [pert EXCEPT !.params =
        [i \in 1..Len(pert.params) |-> pert.params[i] - Sign(pert.grad[i])]]

\* torch.autograd.backward(loss): the gradients the classifier gives at the
\* point of the last forward pass, accumulated into the perturbation's
\* .grad; known is what the classifier answered before at these points
Gradients(pert, known) ==
    {g \in [1..Len(pert.params) -> GradVals] :
        \A i \in 1..Len(pert.params) :
            <<i, pert.params[i]>> \in DOMAIN known
                => g[i] = known[<<i, pert.params[i]>>]}

Accumulate(pert, g) ==
    [pert EXCEPT !.grad = [i \in 1..Len(pert.params) |-> pert.grad[i] + g[i]]]

Remember(pert, known, g) ==
    [k \in DOMAIN known \cup {<<i, pert.params[i]>> : i \in 1..Len(pert.params)}
        |-> IF k \in DOMAIN known THEN known[k] ELSE g[k[1]]]

NoGradients == [k \in {} |-> 0]
NoCallsMade ==
    [backward |-> 0, update_params |-> 0, opt_step |-> 0, zero_grad |-> 0,
     forward |-> 0, setup |-> 0, cleanup |-> 0, attach_originals |-> 0]
NoCall ==
    [kind |-> None, step_size |-> 0, num_iterations |-> 0,
     random_init |-> FALSE, signed |-> TRUE]
NotReturned == [kind |-> None, params |-> <<>>, originals |-> <<>>]

\* the batches handed to the attack engine
EngineBatches == {<<0>>, <<0, 1>>, <<1, 1>>}

FGSMCalls ==
    {[kind |-> "FGSM", step_size |-> s, num_iterations |-> 0,
      random_init |-> FALSE, signed |-> TRUE] : s \in StepSizes}

PGDCalls ==
    {[kind |-> "PGD", step_size |-> s, num_iterations |-> n,
      random_init |-> r, signed |-> sg] :
        s \in StepSizes, n \in 0..MaxIter, r \in BOOLEAN, sg \in BOOLEAN}

(***************************************************************************)
(* FGSM.attack(examples, labels, step_size)                                *)
(***************************************************************************)
\* a caller other than train enters FGSM.attack or PGD.attack; the previous
\* perturbation is discarded
EngineCall ==
    /\ a_pc = "idle"
    /\ t_pc = "idle"
    /\ \E c \in FGSMCalls \cup PGDCalls :
        /\ call' = c
        /\ a_pc' = IF c.kind = "FGSM" THEN "fgsm_begin" ELSE "pgd_begin"
    /\ made' = NoCallsMade
    /\ net_grad' = NoGradients
    /\ returned' = NotReturned
    /\ iter_no' = 0
    /\ loss_at' = <<>>
    /\ UNCHANGED <<examples, perturbation, init_params, loss_ref, nvars,
                   tvars, evars,
                   wvars>>

\* self.classifier_net.eval(); perturbation = self.threat_model(examples)
FGSM_begin ==
    /\ a_pc = "fgsm_begin"
    /\ net_mode' = "eval"
    /\ perturbation' = ThreatModel(examples)
    /\ init_params' = ThreatModel(examples).params
    /\ a_pc' = "fgsm_setup"
    /\ UNCHANGED <<call, examples, loss_ref, loss_at, iter_no, made, returned,
                   net_grad, net_weights, tvars, evars,
                   wvars>>

\* self.loss_fxn.setup_attack_batch(var_examples)
FGSM_setup ==
    /\ a_pc = "fgsm_setup"
    /\ loss_ref' = examples
    /\ made' = [made EXCEPT !.setup = @ + 1]
    /\ a_pc' = "fgsm_forward"
    /\ UNCHANGED <<call, examples, perturbation, init_params, loss_at, iter_no,
                   returned, net_grad, nvars, tvars, evars,
                   wvars>>

\* loss = self.loss_fxn.forward(perturbation(var_examples), var_labels)
FGSM_forward ==
    /\ a_pc = "fgsm_forward"
    /\ loss_at' = Apply(perturbation, examples)
    /\ made' = [made EXCEPT !.forward = @ + 1]
    /\ a_pc' = "fgsm_backward"
    /\ UNCHANGED <<call, examples, perturbation, init_params, loss_ref, iter_no,
                   returned, net_grad, nvars, tvars, evars,
                   wvars>>

\* torch.autograd.backward(loss)
FGSM_backward ==
    /\ a_pc = "fgsm_backward"
    /\ \E g \in Gradients(perturbation, net_grad) :
        /\ perturbation' = Accumulate(perturbation, g)
        /\ net_grad' = Remember(perturbation, net_grad, g)
    /\ made' = [made EXCEPT !.backward = @ + 1]
    /\ a_pc' = "fgsm_update"
    /\ UNCHANGED <<call, examples, init_params, loss_ref, loss_at, iter_no,
                   returned, nvars, tvars, evars,
                   wvars>>

\* faulty variant: the sign step without its step_size factor
FGSM_update_fxn_sign(step_size, grad_data) == Sign(grad_data)

\* update_fxn = lambda grad_data: step_size * torch.sign(grad_data)
FGSM_update_fxn(step_size, grad_data) == step_size * Sign(grad_data)

\* perturbation.update_params(update_fxn), then the verbose validation_loop,
\* which only reads
FGSM_update ==
    /\ a_pc = "fgsm_update"
    /\ perturbation' = update_params(perturbation,
            [i \in 1..Len(perturbation.grad) |->
                FGSM_update_fxn(call.step_size, perturbation.grad[i])])
    /\ made' = [made EXCEPT !.update_params = @ + 1]
    /\ a_pc' = "fgsm_cleanup"
    /\ UNCHANGED <<call, examples, init_params, loss_ref, loss_at, iter_no,
                   returned, net_grad, nvars, tvars, evars,
                   wvars>>

\* self.loss_fxn.cleanup_attack_batch()
FGSM_cleanup ==
    /\ a_pc = "fgsm_cleanup"
    /\ loss_ref' = <<>>
    /\ made' = [made EXCEPT !.cleanup = @ + 1]
    /\ a_pc' = "fgsm_return"
    /\ UNCHANGED <<call, examples, perturbation, init_params, loss_at, iter_no,
                   returned, net_grad, nvars, tvars, evars,
                   wvars>>

\* perturbation.attach_originals(examples); return perturbation
FGSM_return ==
    /\ a_pc = "fgsm_return"
    /\ perturbation' = attach_originals(perturbation, examples)
    /\ returned' = [kind |-> "FGSM", params |-> perturbation.params,
                    originals |-> examples]
    /\ made' = [made EXCEPT !.attach_originals = @ + 1]
    /\ a_pc' = "idle"
    /\ UNCHANGED <<call, examples, init_params, loss_ref, loss_at, iter_no,
                   net_grad, nvars, tvars, evars,
                   wvars>>

(***************************************************************************)
(* PGD.attack(examples, labels, step_size, num_iterations, random_init,    *)
(*            signed)                                                      *)
(***************************************************************************)
\* self.classifier_net.eval(); perturbation = self.threat_model(examples)
PGD_begin ==
    /\ a_pc = "pgd_begin"
    /\ net_mode' = "eval"
    /\ perturbation' = ThreatModel(examples)
    /\ init_params' = ThreatModel(examples).params
    /\ a_pc' = "pgd_setup"
    /\ UNCHANGED <<call, examples, loss_ref, loss_at, iter_no, made, returned,
                   net_grad, net_weights, tvars, evars,
                   wvars>>

\* self.loss_fxn.setup_attack_batch(var_examples); the validator only reads
PGD_setup ==
    /\ a_pc = "pgd_setup"
    /\ loss_ref' = examples
    /\ made' = [made EXCEPT !.setup = @ + 1]
    /\ a_pc' = "pgd_random_init"
    /\ UNCHANGED <<call, examples, perturbation, init_params, loss_at, iter_no,
                   returned, net_grad, nvars, tvars, evars,
                   wvars>>

\* if random_init: perturbation.random_init(); then the optimizer and the
\* update function are built, which moves nothing
PGD_random_init ==
    /\ a_pc = "pgd_random_init"
    /\ \E p \in (IF call.random_init THEN random_init(perturbation)
                                     ELSE {perturbation}) :
        /\ perturbation' = p
        /\ init_params' = p.params
    /\ iter_no' = 0
    /\ a_pc' = "pgd_loop"
    /\ UNCHANGED <<call, examples, loss_ref, loss_at, made, returned, net_grad,
                   nvars, tvars, evars,
                   wvars>>

\* faulty variant: a loop that runs once more than asked
PGD_loop_continues_off_by_one(i, num_iterations) == i <= num_iterations

\* for iter_no in xrange(num_iterations)
PGD_loop_continues(i, num_iterations) == i < num_iterations

\* loop head; inside the loop: perturbation.zero_grad()
PGD_loop ==
    /\ a_pc = "pgd_loop"
    /\ IF PGD_loop_continues(iter_no, call.num_iterations)
       THEN /\ perturbation' = zero_grad(perturbation)
            /\ made' = [made EXCEPT !.zero_grad = @ + 1]
            /\ a_pc' = "pgd_forward"
       ELSE /\ a_pc' = "pgd_final"
            /\ UNCHANGED <<perturbation, made>>
    /\ UNCHANGED <<call, examples, init_params, loss_ref, loss_at, iter_no,
                   returned, net_grad, nvars, tvars, evars,
                   wvars>>

\* loss = self.loss_fxn.forward(perturbation(var_examples), var_labels)
PGD_forward ==
    /\ a_pc = "pgd_forward"
    /\ loss_at' = Apply(perturbation, examples)
    /\ made' = [made EXCEPT !.forward = @ + 1]
    /\ a_pc' = "pgd_backward"
    /\ UNCHANGED <<call, examples, perturbation, init_params, loss_ref, iter_no,
                   returned, net_grad, nvars, tvars, evars,
                   wvars>>

\* torch.autograd.backward(loss)
PGD_backward ==
    /\ a_pc = "pgd_backward"
    /\ \E g \in Gradients(perturbation, net_grad) :
        /\ perturbation' = Accumulate(perturbation, g)
        /\ net_grad' = Remember(perturbation, net_grad, g)
    /\ made' = [made EXCEPT !.backward = @ + 1]
    /\ a_pc' = "pgd_step"
    /\ UNCHANGED <<call, examples, init_params, loss_ref, loss_at, iter_no,
                   returned, nvars, tvars, evars,
                   wvars>>

\* faulty variant: the sign step without its step_size factor
PGD_update_fxn_sign(step_size, grad_data) == Sign(grad_data)

\* update_fxn = lambda grad_data: step_size * torch.sign(grad_data)
PGD_update_fxn(step_size, grad_data) == step_size * Sign(grad_data)

\* faulty variant: the signed step taken whatever the caller asked for
PGD_signed_step_always(signed) == TRUE

\* if signed:
PGD_signed_step(signed) == signed

\* if signed: perturbation.update_params(update_fxn) else: optimizer.step();
\* the validator only reads; next iteration
PGD_step ==
    /\ a_pc = "pgd_step"
    /\ IF PGD_signed_step(call.signed)
       THEN /\ perturbation' = update_params(perturbation,
                    [i \in 1..Len(perturbation.grad) |->
                        PGD_update_fxn(call.step_size, perturbation.grad[i])])
            /\ made' = [made EXCEPT !.update_params = @ + 1]
       ELSE /\ perturbation' = AdamStep(perturbation)
            /\ made' = [made EXCEPT !.opt_step = @ + 1]
    /\ iter_no' = iter_no + 1
    /\ a_pc' = "pgd_loop"
    /\ UNCHANGED <<call, examples, init_params, loss_ref, loss_at, returned,
                   net_grad, nvars, tvars, evars,
                   wvars>>

\* after the loop: perturbation.zero_grad()
PGD_final ==
    /\ a_pc = "pgd_final"
    /\ perturbation' = zero_grad(perturbation)
    /\ made' = [made EXCEPT !.zero_grad = @ + 1]
    /\ a_pc' = "pgd_cleanup"
    /\ UNCHANGED <<call, examples, init_params, loss_ref, loss_at, iter_no,
                   returned, net_grad, nvars, tvars, evars,
                   wvars>>

\* faulty variant: the loss function left with its reference
PGD_cleanup_skipped ==
    /\ a_pc = "pgd_cleanup"
    /\ a_pc' = "pgd_return"
    /\ UNCHANGED <<call, examples, perturbation, init_params, loss_ref, loss_at,
                   iter_no, made, returned, net_grad, nvars, tvars, evars,
                   wvars>>

\* self.loss_fxn.cleanup_attack_batch()
PGD_cleanup ==
    /\ a_pc = "pgd_cleanup"
    /\ loss_ref' = <<>>
    /\ made' = [made EXCEPT !.cleanup = @ + 1]
    /\ a_pc' = "pgd_return"
    /\ UNCHANGED <<call, examples, perturbation, init_params, loss_at, iter_no,
                   returned, net_grad, nvars, tvars, evars,
                   wvars>>

\* perturbation.attach_originals(examples); return perturbation
PGD_return ==
    /\ a_pc = "pgd_return"
    /\ perturbation' = attach_originals(perturbation, examples)
    /\ returned' = [kind |-> "PGD", params |-> perturbation.params,
                    originals |-> examples]
    /\ made' = [made EXCEPT !.attach_originals = @ + 1]
    /\ a_pc' = "idle"
    /\ UNCHANGED <<call, examples, init_params, loss_ref, loss_at, iter_no,
                   net_grad, nvars, tvars, evars,
                   wvars>>

(***************************************************************************)
(* AdversarialAttackParameters.attack(inputs, labels)                      *)
(***************************************************************************)
\* random.sample(range(num_elements), k): k distinct indices in any order
RandomSample(num_elements, k) ==
    {s \in [1..k -> 0..(num_elements - 1)] :
        \A a, b \in 1..k : a # b => s[a] # s[b]}

\* sorted(...): insertion of each element into the sorted rest
RECURSIVE Insert(_, _)
Insert(x, s) ==
    IF s = <<>> THEN <<x>>
    ELSE IF x <= Head(s) THEN <<x>> \o s
    ELSE <<Head(s)>> \o Insert(x, Tail(s))

RECURSIVE sorted(_)
sorted(s) == IF s = <<>> THEN <<>> ELSE Insert(Head(s), sorted(Tail(s)))

\* faulty variant: the selection size rounded to nearest instead of truncated
NumSelected_rounded(proportion_attacked, num_elements) ==
    (2 * proportion_attacked[1] * num_elements + proportion_attacked[2])
        \div (2 * proportion_attacked[2])

\* int(self.proportion_attacked * num_elements)
NumSelected(proportion_attacked, num_elements) ==
    IntOfProduct(proportion_attacked, num_elements)

\* selected_idxs = sorted(random.sample(range(num_elements), int(...)))
SelectedIdxs(proportion_attacked, num_elements) ==
    {sorted(s) : s \in RandomSample(num_elements,
                          NumSelected(proportion_attacked, num_elements))}

\* tensor.index_select(0, idxs), idxs counted from 0
index_select(tensor, idxs) == [j \in 1..Len(idxs) |-> tensor[idxs[j] + 1]]

\* self.output_filter(self.adv_attack_obj.attack(adv_inputs, pre_adv_labels)):
\* a batch of the shape of adv_inputs, each pixel moved by the attack
AdvExamples(adv_inputs, pre_adv_labels) ==
    {[j \in 1..Len(adv_inputs) |-> adv_inputs[j] + d[j]] :
        d \in [1..Len(adv_inputs) -> AdvDeltas]}

\* the triple (None, None, None)
Sentinel ==
    [none |-> TRUE, adv_examples |-> <<>>, pre_adv_labels |-> <<>>,
     selected_idxs |-> <<>>]

\* no call of attack made yet for this minibatch
NoAdvData ==
    [none |-> FALSE, adv_examples |-> <<>>, pre_adv_labels |-> <<>>,
     selected_idxs |-> <<>>]

\* what attack(inputs, labels) can return for a wrapper of the given proportion
attack(proportion_attacked, in, lab) ==
    UNION {
        IF Len(idxs) = 0
        THEN {Sentinel}
        ELSE {[none |-> FALSE, adv_examples |-> adv,
               pre_adv_labels |-> index_select(lab, idxs),
               selected_idxs |-> idxs] :
                 adv \in AdvExamples(index_select(in, idxs),
                                     index_select(lab, idxs))}
        : idxs \in SelectedIdxs(proportion_attacked, Len(in))}

(***************************************************************************)
(* AdversarialAttackParameters.attack with adv_attack_obj an FGSM or a PGD  *)
(* of this repository: the call of the engine is followed step by step.    *)
(***************************************************************************)
\* the object FGSM.attack and PGD.attack hand back: `return perturbation`,
\* an AdversarialPerturbation and not a tensor
AttackOutput(r) ==
    [type |-> "AdversarialPerturbation", params |-> r.params,
     originals |-> r.originals]

\* self.output_filter = lambda d: d, the filter of FGSM, BIM and LInfPGD
output_filter(d) == d

\* the wrappers: adv_attack_obj with its attack_kwargs, proportion_attacked
Wrappers ==
    [proportion_attacked : Proportions, attack_kwargs : FGSMCalls \cup PGDCalls]

\* attack up to the call of the engine: the selection, the sentinel for an
\* empty one, index_select of inputs and labels, adv_attack_obj.attack(...)
wrap_select ==
    /\ w_pc = "select"
    /\ \E idxs \in SelectedIdxs(w_cfg.proportion_attacked, Len(inputs)) :
        IF Len(idxs) = 0
        THEN /\ w_ret' = Sentinel
             /\ w_pc' = "returned"
             /\ UNCHANGED avars
        ELSE /\ w_ret' = [none |-> FALSE, adv_examples |-> <<>>,
                          pre_adv_labels |-> index_select(labels, idxs),
                          selected_idxs |-> idxs]
             /\ w_pc' = "engine"
             /\ examples' = index_select(inputs, idxs)
             /\ call' = w_cfg.attack_kwargs
             /\ a_pc' = IF w_cfg.attack_kwargs.kind = "FGSM"
                        THEN "fgsm_begin" ELSE "pgd_begin"
             /\ made' = NoCallsMade
             /\ net_grad' = NoGradients
             /\ returned' = NotReturned
             /\ iter_no' = 0
             /\ loss_at' = <<>>
             /\ UNCHANGED <<perturbation, init_params, loss_ref>>
    /\ UNCHANGED <<nvars, tvars, evars, w_cfg>>

\* adv_examples = self.output_filter(<what the engine returned>);
\* return (adv_examples, pre_adv_labels, selected_idxs)
wrap_return ==
    /\ w_pc = "engine"
    /\ a_pc = "idle"
    /\ returned.kind # None
    /\ w_ret' = [w_ret EXCEPT
                    !.adv_examples = output_filter(AttackOutput(returned))]
    /\ w_pc' = "returned"
    /\ UNCHANGED <<nvars, avars, tvars, evars, w_cfg>>

(***************************************************************************)
(* AdversarialTraining                                                     *)
(***************************************************************************)
\* set_verbosity's tables
verbosity_level == [low |-> 0, medium |-> 1, high |-> 2, snoop |-> 420]
verbosity_adv == [medium |-> 2000, high |-> 100, snoop |-> 1]
verbosity_epoch == [low |-> 100, medium |-> 10, high |-> 1, snoop |-> 1]

\* the minibatches a data loader can yield: [inputs, labels]
Minibatches ==
    UNION {{[inputs |-> [i \in 1..n |-> b[i][1]],
             labels |-> [i \in 1..n |-> b[i][2]]] : b \in [1..n -> Dataset]}
           : n \in 1..MaxBatch}

\* attack_parameters=None
NoAttackParameters == [none |-> TRUE, proportion_attacked |-> <<0, 1>>]

\* an AdversarialAttackParameters object, or None
AttackParameters ==
    {[none |-> FALSE, proportion_attacked |-> p] : p \in Proportions}
        \cup {NoAttackParameters}

TrainConfigs ==
    [num_epochs : 0..MaxEpochs,
     num_minibatches : 1..MaxMinibatches,
     attack_parameters : AttackParameters,
     verbosity : VerbosityLevels]

TrainErrors == {"error_set_gpu", "error_eval", "error_cat"}

\* train, lines 293-318: training mode, input validation, set_gpu,
\* verbosity, optimizer.  attack_parameters.set_gpu(use_gpu) is called
\* outside the "is not None" test, so None raises here.
train_setup ==
    /\ t_pc = "setup"
    /\ net_mode' = "train"
    /\ t_pc' = IF t_cfg.attack_parameters.none
               THEN "error_set_gpu" ELSE "epoch"
    /\ epoch' = 0
    /\ UNCHANGED <<t_cfg, mb_i, loader_batch, inputs, labels, adv_data,
                   checkpoints, net_weights, avars, evars,
                   wvars>>

\* for epoch in range(num_epochs)
train_epoch ==
    /\ t_pc = "epoch"
    /\ t_pc' = IF epoch < t_cfg.num_epochs THEN "fetch" ELSE "done"
    /\ mb_i' = 0
    /\ UNCHANGED <<t_cfg, epoch, loader_batch, inputs, labels, adv_data,
                   checkpoints, nvars, avars, evars,
                   wvars>>

\* for i, data in enumerate(data_loader, 0): inputs, labels = data; the
\* adversarial data and the perturbation of the minibatch before are gone
train_fetch ==
    /\ t_pc = "fetch"
    /\ IF mb_i < t_cfg.num_minibatches
       THEN \E data \in Minibatches :
                /\ loader_batch' = data
                /\ inputs' = data.inputs
                /\ labels' = data.labels
                /\ t_pc' = "attack"
       ELSE /\ t_pc' = "epoch_end"
            /\ UNCHANGED <<loader_batch, inputs, labels>>
    /\ adv_data' = NoAdvData
    /\ perturbation' = ThreatModel(<<>>)
    /\ UNCHANGED <<t_cfg, epoch, mb_i, checkpoints, nvars, evars, wvars,
                   a_pc, call, examples, init_params, loss_ref, loss_at,
                   iter_no, made, returned, net_grad>>

\* the perturbation the bound attack built to get adv_examples from the
\* selected examples
PerturbationOf(r, in) ==
    LET adv_inputs == index_select(in, r.selected_idxs)
    IN  [params |-> [j \in 1..Len(adv_inputs) |->
                        r.adv_examples[j] - adv_inputs[j]],
         grad |-> Zeros(Len(adv_inputs)),
         originals |-> adv_inputs]

\* _attack_subroutine, line 249: adv_data = attack_parameters.attack(inputs,
\* labels); the bound attack puts the classifier in eval mode when it runs
train_attack ==
    /\ t_pc = "attack"
    /\ \E r \in attack(t_cfg.attack_parameters.proportion_attacked,
                        inputs, labels) :
        /\ adv_data' = r
        /\ net_mode' = IF r.none THEN net_mode ELSE "eval"
        /\ perturbation' = IF r.none THEN perturbation
                           ELSE PerturbationOf(r, inputs)
    /\ t_pc' = "subroutine"
    /\ UNCHANGED <<t_cfg, epoch, mb_i, loader_batch, inputs, labels,
                   checkpoints, net_weights, evars, wvars,
                   a_pc, call, examples, init_params, loss_ref, loss_at,
                   iter_no, made, returned, net_grad>>

\* faulty variant: the adversarial examples put in front of the clean batch
cat_reversed(a, b) == b \o a

\* torch.cat([a, b], dim=0)
cat(a, b) == a \o b

\* the test of lines 252-253 that guards the accuracy printout
PrintsAdvAccuracy(verbosity, minibatch_num) ==
    /\ verbosity_level[verbosity] >= 1
    /\ minibatch_num % verbosity_adv[verbosity] = verbosity_adv[verbosity] - 1

\* _attack_subroutine, lines 250-263: the accuracy printout
\* (attack_parameters.eval index_selects with adv_idxs, which raises on
\* None), then torch.cat of the clean and the adversarial tensors (which
\* raises on None)
attack_subroutine ==
    /\ t_pc = "subroutine"
    /\ IF adv_data.none
       THEN /\ t_pc' = IF PrintsAdvAccuracy(t_cfg.verbosity, mb_i)
                       THEN "error_eval" ELSE "error_cat"
            /\ UNCHANGED <<inputs, labels,
                   wvars>>
       ELSE /\ inputs' = cat(inputs, adv_data.adv_examples)
            /\ labels' = cat(labels, adv_data.pre_adv_labels)
            /\ t_pc' = "step"
    /\ UNCHANGED <<t_cfg, epoch, mb_i, loader_batch, adv_data, checkpoints, nvars, avars, evars,
                   wvars>>

\* faulty variant: the classifier left in the mode the attack put it in
classifier_net_train_skipped(mode) == mode

\* self.classifier_net.train()
classifier_net_train(mode) == "train"

\* train, lines 339-342: normalizer.differentiable_call(),
\* classifier_net.train(), Variable(...), optimizer.zero_grad()
train_step ==
    /\ t_pc = "step"
    /\ net_mode' = classifier_net_train(net_mode)
    /\ t_pc' = "forward"
    /\ UNCHANGED <<t_cfg, epoch, mb_i, loader_batch, inputs, labels, adv_data,
                   checkpoints, net_weights, avars, evars, wvars>>

\* train, lines 345-346: outputs = classifier_net.forward(normalizer(inputs));
\* loss = loss_fxn.forward(outputs, labels)
train_forward ==
    /\ t_pc = "forward"
    /\ t_pc' = "backward"
    /\ UNCHANGED <<t_cfg, epoch, mb_i, loader_batch, inputs, labels, adv_data,
                   checkpoints, nvars, avars, evars, wvars>>

\* train, line 349: loss.backward()
train_backward ==
    /\ t_pc = "backward"
    /\ t_pc' = "opt_step"
    /\ UNCHANGED <<t_cfg, epoch, mb_i, loader_batch, inputs, labels, adv_data,
                   checkpoints, nvars, avars, evars, wvars>>

\* faulty variant: an outer optimizer built over the perturbation's
\* parameters as well
train_optimizer_step_over_perturbation ==
    /\ t_pc = "opt_step"
    /\ net_weights' = net_weights + 1
    /\ perturbation' = AdamStep([perturbation EXCEPT
                            !.grad = [i \in 1..Len(@) |-> 3]])
    /\ mb_i' = mb_i + 1
    /\ t_pc' = "fetch"
    /\ UNCHANGED <<t_cfg, epoch, loader_batch, inputs, labels, adv_data,
                   checkpoints, net_mode, evars, wvars,
                   a_pc, call, examples, init_params, loss_ref, loss_at,
                   iter_no, made, returned, net_grad>>

\* train, lines 350-358: optimizer.step() of the optimizer built over
\* classifier_net.parameters() (lines 317-318), the loss printout, next i
train_optimizer_step ==
    /\ t_pc = "opt_step"
    /\ net_weights' = net_weights + 1
    /\ mb_i' = mb_i + 1
    /\ t_pc' = "fetch"
    /\ UNCHANGED <<t_cfg, epoch, loader_batch, inputs, labels, adv_data,
                   checkpoints, net_mode, avars, evars, wvars>>

\* train, lines 360-366: checkpoint when epoch > 0 and
\* epoch % verbosity_epoch == 0
train_epoch_end ==
    /\ t_pc = "epoch_end"
    /\ checkpoints' =
        IF epoch > 0 /\ epoch % verbosity_epoch[t_cfg.verbosity] = 0
        THEN checkpoints \cup {epoch} ELSE checkpoints
    /\ epoch' = epoch + 1
    /\ t_pc' = "epoch"
    /\ UNCHANGED <<t_cfg, mb_i, loader_batch, inputs, labels, adv_data,
                   nvars, avars, evars,
                   wvars>>

(***************************************************************************)
(* utils.AverageMeter                                                      *)
(***************************************************************************)
\* AverageMeter(): nothing accumulated, avg 0
AverageMeter == [sum |-> <<0, 1>>, count |-> 0, avg |-> <<0, 1>>]

\* meter.update(val, n): sum += val * n; count += n; avg = sum / count
AverageMeter_update(meter, val, n) ==
    LET sum == RatAdd(meter.sum, RatMulInt(val, n))
        count == meter.count + n
    IN  [sum |-> sum, count |-> count, avg |-> RatDivInt(sum, count)]

(***************************************************************************)
(* AdversarialEvaluation.evaluate                                          *)
(***************************************************************************)
AttackNames == {"fgsm", "pgd", "ground"}

\* attack_ensemble: dict {string -> AdversarialAttackParameters}
Ensembles ==
    UNION {[names -> Proportions] : names \in SUBSET AttackNames}

\* num_minibatches: None or an int
MinibatchCaps ==
    {[none |-> TRUE, n |-> 0]} \cup
    {[none |-> FALSE, n |-> k] : k \in 0..MaxMinibatches}

EvalConfigs ==
    [attack_ensemble : Ensembles,
     loader_len : 0..MaxMinibatches,
     num_minibatches : MinibatchCaps]

NoResults == [k \in {} |-> 0]

\* faulty variant: no check of the reserved name
EnsembleRejected_never(attack_ensemble) == FALSE

\* assert 'ground' not in attack_ensemble
EnsembleRejected(attack_ensemble) == "ground" \in DOMAIN attack_ensemble

\* attack_ensemble.keys() + ['ground']
ResultKeys(attack_ensemble) == DOMAIN attack_ensemble \cup {"ground"}

\* evaluate, lines 414-426: eval mode, the assertions, one fresh meter per key
evaluate_begin ==
    /\ e_pc = "begin"
    /\ net_mode' = "eval"
    /\ IF EnsembleRejected(e_cfg.attack_ensemble)
       THEN /\ e_pc' = "error_assert"
            /\ UNCHANGED <<validation_results, tally,
                   wvars>>
       ELSE /\ validation_results' =
                [k \in ResultKeys(e_cfg.attack_ensemble) |-> AverageMeter]
            /\ tally' = [k \in ResultKeys(e_cfg.attack_ensemble) |->
                            [correct |-> 0, seen |-> 0]]
            /\ e_pc' = "loop"
    /\ e_i' = 0
    /\ UNCHANGED <<e_cfg, e_n, e_todo, e_result, net_weights, avars, tvars,
                   wvars>>

\* faulty variant: every minibatch weighted alike
GroundObservation_unweighted(ground_accuracy_int, minibatch) ==
    [val |-> Rat(ground_accuracy_int, minibatch), n |-> 1]

\* ground_avg.update(ground_accuracy_int / minibatch, n=int(minibatch))
GroundObservation(ground_accuracy_int, minibatch) ==
    [val |-> Rat(ground_accuracy_int, minibatch), n |-> minibatch]

\* attack_avg.update(attack_accuracy_int / minibatch, n=int(minibatch)),
\* minibatch being the size of the whole minibatch
AttackObservation(attack_accuracy_int, minibatch) ==
    [val |-> Rat(attack_accuracy_int, minibatch), n |-> minibatch]

\* evaluate, lines 433-457: the next minibatch, unless the loader is
\* exhausted or the cap is reached; its clean accuracy goes to 'ground'
evaluate_minibatch ==
    /\ e_pc = "loop"
    /\ IF /\ e_i < e_cfg.loader_len
          /\ ~(~e_cfg.num_minibatches.none /\ e_i >= e_cfg.num_minibatches.n)
       THEN \E minibatch \in 1..MaxBatch :
            \E ground_accuracy_int \in 0..minibatch :
                LET obs == GroundObservation(ground_accuracy_int, minibatch)
                IN  /\ validation_results' =
                        [validation_results EXCEPT !["ground"] =
                            AverageMeter_update(@, obs.val, obs.n)]
                    /\ tally' = [tally EXCEPT !["ground"] =
                            [correct |-> @.correct + ground_accuracy_int,
                             seen |-> @.seen + minibatch]]
                    /\ e_n' = minibatch
                    /\ e_todo' = DOMAIN e_cfg.attack_ensemble
                    /\ e_pc' = "attacks"
       ELSE /\ e_pc' = "return"
            /\ UNCHANGED <<validation_results, tally, e_n, e_todo,
                   wvars>>
    /\ UNCHANGED <<e_cfg, e_i, e_result, nvars, avars, tvars,
                   wvars>>

\* evaluate, lines 461-474: one attack of the ensemble on the current
\* minibatch.  Variable(attack_out_tuple[0]) raises on the sentinel's None;
\* otherwise the number of adversarial examples the classifier still gets
\* right is accumulated
evaluate_attack ==
    /\ e_pc = "attacks"
    /\ \E attack_name \in e_todo :
       \E idxs \in SelectedIdxs(e_cfg.attack_ensemble[attack_name], e_n) :
          IF Len(idxs) = 0
          THEN /\ e_pc' = "error_none"
               /\ UNCHANGED <<validation_results, tally, e_todo, net_mode,
                   wvars>>
          ELSE \E attack_accuracy_int \in 0..Len(idxs) :
                LET obs == AttackObservation(attack_accuracy_int, e_n)
                IN  /\ validation_results' =
                        [validation_results EXCEPT ![attack_name] =
                            AverageMeter_update(@, obs.val, obs.n)]
                    /\ tally' = [tally EXCEPT ![attack_name] =
                            [correct |-> @.correct + attack_accuracy_int,
                             seen |-> @.seen + Len(idxs)]]
                    /\ e_todo' = e_todo \ {attack_name}
                    /\ net_mode' = "eval"
                    /\ e_pc' = "attacks"
    /\ UNCHANGED <<e_cfg, e_i, e_n, e_result, net_weights, avars, tvars,
                   wvars>>

\* the ensemble is through for this minibatch: next i
evaluate_next ==
    /\ e_pc = "attacks"
    /\ e_todo = {}
    /\ e_i' = e_i + 1
    /\ e_pc' = "loop"
    /\ UNCHANGED <<e_cfg, e_n, e_todo, validation_results, e_result, tally,
                   nvars, avars, tvars,
                   wvars>>

\* return {k: meter.avg for k, meter in validation_results.iteritems()}
evaluate_return ==
    /\ e_pc = "return"
    /\ e_result' = [k \in DOMAIN validation_results |->
                        validation_results[k].avg]
    /\ e_pc' = "done"
    /\ UNCHANGED <<e_cfg, e_i, e_n, e_todo, validation_results, tally, nvars,
                   avars, tvars,
                   wvars>>

(***************************************************************************)
(* Idle values of the three parts, for the specifications that do not run  *)
(* them.                                                                   *)
(***************************************************************************)
AttackIdle ==
    /\ a_pc = "idle"
    /\ call = NoCall
    /\ perturbation = ThreatModel(<<>>)
    /\ init_params = <<>>
    /\ loss_ref = <<>>
    /\ loss_at = <<>>
    /\ iter_no = 0
    /\ made = NoCallsMade
    /\ returned = NotReturned
    /\ net_grad = NoGradients

NoBatch == [inputs |-> <<>>, labels |-> <<>>]

WrapperIdle ==
    /\ w_pc = "idle"
    /\ w_cfg = [proportion_attacked |-> <<0, 1>>, attack_kwargs |-> NoCall]
    /\ w_ret = NoAdvData


TrainIdle ==
    /\ t_pc = "idle"
    /\ t_cfg = [num_epochs |-> 0, num_minibatches |-> 1,
                attack_parameters |-> NoAttackParameters, verbosity |-> "low"]
    /\ epoch = 0
    /\ mb_i = 0
    /\ loader_batch = NoBatch
    /\ inputs = <<>>
    /\ labels = <<>>
    /\ adv_data = NoAdvData
    /\ checkpoints = {}

EvalIdle ==
    /\ e_pc = "idle"
    /\ e_cfg = [attack_ensemble |-> NoResults, loader_len |-> 0,
                num_minibatches |-> [none |-> TRUE, n |-> 0]]
    /\ e_i = 0
    /\ e_n = 0
    /\ e_todo = {}
    /\ validation_results = NoResults
    /\ e_result = NoResults
    /\ tally = NoResults

(***************************************************************************)
(* The attack engine on its own: any sequence of FGSM.attack and           *)
(* PGD.attack calls on a batch, against any classifier.                    *)
(***************************************************************************)
InitAttack ==
    /\ AttackIdle
    /\ examples \in EngineBatches
    /\ net_mode \in {"train", "eval"}
    /\ net_weights = 0
    /\ TrainIdle
    /\ EvalIdle
    /\ WrapperIdle

NextAttack ==
    \/ EngineCall
    \/ FGSM_begin \/ FGSM_setup \/ FGSM_forward \/ FGSM_backward
    \/ FGSM_update \/ FGSM_cleanup \/ FGSM_return
    \/ PGD_begin \/ PGD_setup \/ PGD_random_init \/ PGD_loop \/ PGD_forward
    \/ PGD_backward \/ PGD_step \/ PGD_final \/ PGD_cleanup \/ PGD_return

SpecAttack == InitAttack /\ [][NextAttack]_vars

(***************************************************************************)
(* One call of AdversarialTraining.train, for any configuration and any    *)
(* data.                                                                   *)
(***************************************************************************)
InitTrain ==
    /\ t_pc = "setup"
    /\ t_cfg \in TrainConfigs
    /\ epoch = 0
    /\ mb_i = 0
    /\ loader_batch = NoBatch
    /\ inputs = <<>>
    /\ labels = <<>>
    /\ adv_data = NoAdvData
    /\ checkpoints = {}
    /\ net_mode \in {"train", "eval"}
    /\ net_weights = 0
    /\ examples = <<>>
    /\ AttackIdle
    /\ EvalIdle
    /\ WrapperIdle

NextTrain ==
    \/ train_setup \/ train_epoch \/ train_fetch \/ train_attack
    \/ attack_subroutine \/ train_step \/ train_forward \/ train_backward
    \/ train_optimizer_step \/ train_epoch_end

SpecTrain == InitTrain /\ [][NextTrain]_vars

(***************************************************************************)
(* One call of AdversarialEvaluation.evaluate, for any ensemble, any data  *)
(* and any classifier.                                                     *)
(***************************************************************************)
InitEval ==
    /\ e_pc = "begin"
    /\ e_cfg \in EvalConfigs
    /\ e_i = 0
    /\ e_n = 0
    /\ e_todo = {}
    /\ validation_results = NoResults
    /\ e_result = NoResults
    /\ tally = NoResults
    /\ net_mode \in {"train", "eval"}
    /\ net_weights = 0
    /\ examples = <<>>
    /\ AttackIdle
    /\ TrainIdle
    /\ WrapperIdle

NextEval ==
    \/ evaluate_begin \/ evaluate_minibatch \/ evaluate_attack
    \/ evaluate_next \/ evaluate_return

SpecEval == InitEval /\ [][NextEval]_vars

(***************************************************************************)
(* One call of AdversarialAttackParameters.attack on a minibatch, for any   *)
(* wrapper built with an FGSM or a PGD, against any classifier.            *)
(***************************************************************************)
InitWrap ==
    /\ w_pc = "select"
    /\ w_cfg \in Wrappers
    /\ w_ret = NoAdvData
    /\ \E data \in Minibatches :
        /\ inputs = data.inputs
        /\ labels = data.labels
    /\ t_pc = "idle"
    /\ t_cfg = [num_epochs |-> 0, num_minibatches |-> 1,
                attack_parameters |-> NoAttackParameters, verbosity |-> "low"]
    /\ epoch = 0
    /\ mb_i = 0
    /\ loader_batch = NoBatch
    /\ adv_data = NoAdvData
    /\ checkpoints = {}
    /\ net_mode \in {"train", "eval"}
    /\ net_weights = 0
    /\ examples = <<>>
    /\ AttackIdle
    /\ EvalIdle

NextWrap ==
    \/ wrap_select
    \/ FGSM_begin \/ FGSM_setup \/ FGSM_forward \/ FGSM_backward
    \/ FGSM_update \/ FGSM_cleanup \/ FGSM_return
    \/ PGD_begin \/ PGD_setup \/ PGD_random_init \/ PGD_loop \/ PGD_forward
    \/ PGD_backward \/ PGD_step \/ PGD_final \/ PGD_cleanup \/ PGD_return
    \/ wrap_return

SpecWrap == InitWrap /\ [][NextWrap]_vars

(***************************************************************************)
(* The two uses of the library together: a run is either a sequence of     *)
(* attack calls or a call of train.                                        *)
(***************************************************************************)
InitLibrary == InitAttack \/ InitTrain

NextLibrary ==
    \/ EngineCall
    \/ FGSM_begin \/ FGSM_setup \/ FGSM_forward \/ FGSM_backward
    \/ FGSM_update \/ FGSM_cleanup \/ FGSM_return
    \/ PGD_begin \/ PGD_setup \/ PGD_random_init \/ PGD_loop \/ PGD_forward
    \/ PGD_backward \/ PGD_step \/ PGD_final \/ PGD_cleanup \/ PGD_return
    \/ train_setup \/ train_epoch \/ train_fetch \/ train_attack
    \/ attack_subroutine \/ train_step \/ train_forward \/ train_backward
    \/ train_optimizer_step \/ train_epoch_end

SpecLibrary == InitLibrary /\ [][NextLibrary]_vars

(***************************************************************************)
(* Properties.                                                             *)
(***************************************************************************)
\* floor(p * n) for a rational p of [0, 1]: the k with k <= p * n < k + 1
FloorOfProduct(p, n) ==
    CHOOSE k \in 0..n : k * p[2] <= p[1] * n /\ p[1] * n < (k + 1) * p[2]

ProportionOf(cfg) == cfg.attack_parameters.proportion_attacked

C2_EmptySelectionTrainsOnCleanBatch ==
    adv_data.none =>
        /\ t_pc \notin TrainErrors
        /\ t_pc = "step" =>
            inputs = loader_batch.inputs /\ labels = loader_batch.labels

\* C3: for a clean minibatch of size N and a non-empty selection of size k,
\* the batch handed to the supervised step has size N + k: the N clean
\* inputs and labels in their order (the loader's batch, left as it was),
\* then the k adversarial examples in ascending selection order, each made
\* from its selected input and paired with the label of its selected index.
C3_AugmentedBatch ==
    (t_pc = "step" /\ ~adv_data.none) =>
        LET N == Len(loader_batch.inputs)
            sel == adv_data.selected_idxs
            k == Len(sel)
        IN  /\ k = FloorOfProduct(ProportionOf(t_cfg), N)
            /\ k >= 1
            /\ Len(inputs) = N + k
            /\ Len(labels) = N + k
            /\ SubSeq(inputs, 1, N) = loader_batch.inputs
            /\ SubSeq(labels, 1, N) = loader_batch.labels
            /\ \A j \in 1..(k - 1) : sel[j] < sel[j + 1]
            /\ \A j \in 1..k :
                /\ inputs[N + j] = adv_data.adv_examples[j]
                /\ inputs[N + j] - loader_batch.inputs[sel[j] + 1] \in AdvDeltas
                /\ labels[N + j] = loader_batch.labels[sel[j] + 1]

\* C3 happens: a minibatch of two distinct examples grew to three, the
\* second one attacked and moved
C3_Witness ==
    /\ t_pc = "step"
    /\ ~adv_data.none
    /\ loader_batch.inputs = <<0, 1>>
    /\ adv_data.selected_idxs = <<1>>
    /\ inputs = <<0, 1, 2>>
    /\ labels = <<1, 0, 0>>

\* C4: for every attack of the ensemble, the value evaluate returns is
\* (total correctly classified adversarial examples) / (total attacked
\* examples) over the processed minibatches.
C4_AttackAccuracyOverAttackedSubset ==
    e_pc = "done" =>
        \A a \in DOMAIN e_cfg.attack_ensemble :
            tally[a].seen > 0 =>
                e_result[a] = Rat(tally[a].correct, tally[a].seen)

\* C5: for an ensemble without the key 'ground', the meters' key set, and
\* the returned mapping's, is the ensemble's key set plus 'ground' from the
\* start of the pass to its end, whatever the number of minibatches; an
\* ensemble with the key 'ground' makes evaluate fail at once, before any
\* minibatch is processed and any attack is run.
C5_ResultKeys ==
    LET keys == DOMAIN e_cfg.attack_ensemble
    IN  /\ "ground" \in keys =>
            /\ e_pc \in {"begin", "error_assert"}
            /\ validation_results = NoResults
            /\ e_i = 0 /\ e_n = 0
        /\ e_pc \in {"loop", "attacks", "return", "done", "error_none"} =>
            DOMAIN validation_results = keys \cup {"ground"}
        /\ e_pc = "done" => DOMAIN e_result = keys \cup {"ground"}

\* C5 happens: a pass over two minibatches with two attacks returned
C5_Witness ==
    /\ e_pc = "done"
    /\ e_i = 2
    /\ DOMAIN e_result = {"fgsm", "pgd", "ground"}

\* C6: in PGD.attack with random_init=False and step_size=0, signed or not,
\* no perturbation parameter ever moves from its initial value and the
\* perturbation applied to the batch gives the batch.
C6_ZeroStepSizeNeverMoves ==
    (/\ call.kind = "PGD"
     /\ ~call.random_init
     /\ call.step_size = 0
     /\ a_pc # "pgd_begin") =>
        /\ perturbation.params = init_params
        /\ Apply(perturbation, examples) = examples

\* the parameters one sign step of size step_size from the threat model's
\* perturbation gives, the classifier's gradients there being known
SingleSignStep(ex, step_size, known) ==
    [i \in 1..Len(ex) |->
        ThreatModel(ex).params[i]
            + step_size * Sign(known[<<i, ThreatModel(ex).params[i]>>])]

\* C7: PGD.attack with signed=True, num_iterations=1, random_init=False
\* returns the parameters FGSM.attack returns for the same classifier,
\* batch and step_size: both are the single sign step from the threat
\* model's perturbation, made with one backward pass, one update_params
\* call and no optimizer step.
C7_OneSignedIterationIsFGSM ==
    (/\ a_pc = "idle"
     /\ \/ returned.kind = "FGSM"
        \/ /\ returned.kind = "PGD"
           /\ call.signed /\ call.num_iterations = 1 /\ ~call.random_init) =>
        /\ returned.params = SingleSignStep(examples, call.step_size, net_grad)
        /\ made.backward = 1
        /\ made.update_params = 1
        /\ made.opt_step = 0

\* C7 happens: a one-iteration signed PGD call returned, having moved one
\* parameter up and one down
C7_Witness ==
    /\ a_pc = "idle"
    /\ returned.kind = "PGD"
    /\ call.signed /\ call.num_iterations = 1 /\ ~call.random_init
    /\ returned.params = <<2, -2>>

\* C8: PGD.attack with num_iterations=0 returns the parameters exactly as
\* the threat model (random_init=False) or random_init() left them: no
\* backward pass, no update_params call and no optimizer step is made, only
\* one gradient clear, the release of the loss reference and
\* attach_originals.
C8_ZeroIterations ==
    (call.kind = "PGD" /\ call.num_iterations = 0) =>
        /\ a_pc \notin {"pgd_forward", "pgd_backward", "pgd_step"}
        /\ a_pc \in {"pgd_loop", "pgd_final", "pgd_cleanup", "pgd_return",
                     "idle"} => perturbation.params = init_params
        /\ a_pc = "idle" =>
            /\ returned.kind = "PGD"
            /\ returned.params = init_params
            /\ made = [NoCallsMade EXCEPT !.zero_grad = 1, !.setup = 1,
                                          !.cleanup = 1,
                                          !.attach_originals = 1]
            /\ loss_ref = <<>>
            /\ perturbation.originals = examples

\* C8 happens: a zero-iteration call with random_init returned a
\* perturbation that is not the threat model's
C8_Witness ==
    /\ a_pc = "idle"
    /\ returned.kind = "PGD"
    /\ call.num_iterations = 0
    /\ call.random_init
    /\ returned.params = <<1, -1>>

\* C9: FGSM.attack with step_size=0 returns a perturbation whose parameters
\* are the threat model's, so that applying it to the batch gives the
\* batch; one backward pass and one update_params call were still made.
C9_FGSMZeroStepSize ==
    (a_pc = "idle" /\ returned.kind = "FGSM" /\ call.step_size = 0) =>
        /\ returned.params = ThreatModel(examples).params
        /\ Apply(perturbation, examples) = examples
        /\ made.backward = 1
        /\ made.update_params = 1

\* C9 happens: a zero-step FGSM call returned after non-zero gradients
C9_Witness ==
    /\ a_pc = "idle"
    /\ returned.kind = "FGSM"
    /\ call.step_size = 0
    /\ perturbation.grad = <<3, -2>>

\* C10: the 'ground' value evaluate returns after at least one minibatch is
\* (sum of the correctly classified clean examples) / (sum of the minibatch
\* sizes).
C10_GroundAccuracy ==
    (e_pc = "done" /\ e_i >= 1) =>
        e_result["ground"] =
            Rat(tally["ground"].correct, tally["ground"].seen)

\* C10 happens: two minibatches of sizes 1 and 2 with 2 of 3 examples right
C10_Witness ==
    /\ e_pc = "done"
    /\ e_i = 2
    /\ tally["ground"] = [correct |-> 2, seen |-> 3]

C12_TrainWithoutAttack ==
    t_cfg.attack_parameters.none =>
        /\ t_pc \notin TrainErrors
        /\ adv_data = NoAdvData
        /\ t_pc = "step" => (inputs = loader_batch.inputs
                             /\ labels = loader_batch.labels)
        /\ t_pc = "done" =>
             net_weights = t_cfg.num_epochs * t_cfg.num_minibatches

\* C13: an attack of the ensemble that returns (None, None, None) for a
\* minibatch (empty selection) never aborts evaluate: the pass goes on with
\* the other attacks and minibatches to a result with a value for every key
C13_SentinelDoesNotAbortEvaluate ==
    /\ e_pc # "error_none"
    /\ e_pc = "done" =>
         DOMAIN e_result = DOMAIN e_cfg.attack_ensemble \cup {"ground"}

\* C14: in every minibatch of train, when the supervised forward, the
\* backward and the outer optimizer's step are about to run, the attack
\* subroutine has returned (its augmented batch is in place and no attack
\* call is in progress) and the classifier is in training mode, although
\* the attack left it in inference mode
C14_SupervisedStepInTrainingMode ==
    t_pc \in {"forward", "backward", "opt_step"} =>
        /\ net_mode = "train"
        /\ a_pc = "idle"
        /\ ~adv_data.none
        /\ adv_data.selected_idxs # <<>>
        /\ inputs = cat(loader_batch.inputs, adv_data.adv_examples)
        /\ labels = cat(loader_batch.labels, adv_data.pre_adv_labels)

\* C14 happens: an attack has run on two examples of the minibatch and the
\* supervised forward is about to start
C14_Witness ==
    /\ t_pc = "forward"
    /\ Len(adv_data.selected_idxs) = 2
    /\ net_mode = "train"

\* the parameter updates of the call so far, of either kind
UpdatesMade == made.update_params + made.opt_step

\* C15: a call of PGD.attack with num_iterations = N runs exactly N
\* iterations one after the other, each of them zero_grad, then the loss
\* forward, then the backward, then exactly one parameter update; with
\* signed=True the N updates are N update_params and no optimizer step, with
\* signed=False they are N optimizer steps and no update_params, never a mix
C15_PGDIterationProtocol ==
    call.kind = "PGD" =>
        /\ iter_no <= call.num_iterations
        /\ a_pc = "pgd_loop" =>
             /\ made.zero_grad = iter_no /\ made.forward = iter_no
             /\ made.backward = iter_no /\ UpdatesMade = iter_no
        /\ a_pc = "pgd_forward" =>
             /\ made.zero_grad = iter_no + 1 /\ made.forward = iter_no
             /\ made.backward = iter_no /\ UpdatesMade = iter_no
        /\ a_pc = "pgd_backward" =>
             /\ made.zero_grad = iter_no + 1 /\ made.forward = iter_no + 1
             /\ made.backward = iter_no /\ UpdatesMade = iter_no
        /\ a_pc = "pgd_step" =>
             /\ made.zero_grad = iter_no + 1 /\ made.forward = iter_no + 1
             /\ made.backward = iter_no + 1 /\ UpdatesMade = iter_no
        /\ call.signed => made.opt_step = 0
        /\ ~call.signed => made.update_params = 0
        /\ (a_pc = "idle" /\ returned.kind = "PGD") =>
             /\ iter_no = call.num_iterations
             /\ made.forward = call.num_iterations
             /\ made.backward = call.num_iterations
             /\ made.zero_grad = call.num_iterations + 1
             /\ UpdatesMade = call.num_iterations
             /\ made.update_params =
                    (IF call.signed THEN call.num_iterations ELSE 0)
             /\ made.opt_step =
                    (IF call.signed THEN 0 ELSE call.num_iterations)

\* C15 happens: an unsigned call of two iterations has returned
C15_Witness ==
    /\ a_pc = "idle"
    /\ returned.kind = "PGD"
    /\ call.num_iterations = 2
    /\ ~call.signed
    /\ made.opt_step = 2

\* the loss forwards a call makes: one for FGSM, num_iterations for PGD
ForwardsOf(c) == IF c.kind = "FGSM" THEN 1 ELSE c.num_iterations

\* C16: in every call of FGSM.attack and PGD.attack, setup_attack_batch is
\* called once, before the first loss forward; cleanup_attack_batch once,
\* after the last one; attach_originals after the cleanup, before the
\* return.  Every loss forward finds the batch fixed as the loss function's
\* reference, and between calls the loss function holds no reference
C16_LossReferenceLifecycle ==
    /\ made.setup <= 1 /\ made.cleanup <= 1 /\ made.attach_originals <= 1
    /\ made.forward > 0 => made.setup = 1
    /\ a_pc \in {"fgsm_forward", "pgd_forward"} =>
         (made.setup = 1 /\ made.cleanup = 0 /\ loss_ref = examples)
    /\ made.cleanup = 1 =>
         (made.forward = ForwardsOf(call) /\ loss_ref = <<>>)
    /\ made.attach_originals = 1 => (made.cleanup = 1 /\ a_pc = "idle")
    /\ a_pc = "idle" =>
         /\ loss_ref = <<>>
         /\ returned.kind # None =>
              /\ made.setup = 1 /\ made.cleanup = 1
              /\ made.attach_originals = 1
              /\ made.forward = ForwardsOf(call)
              /\ perturbation.originals = examples

\* C16 happens: a PGD call of two iterations has returned
C16_Witness ==
    /\ a_pc = "idle"
    /\ returned.kind = "PGD"
    /\ call.num_iterations = 2
    /\ made.forward = 2
    /\ made.cleanup = 1
    /\ loss_ref = <<>>

\* C17: the classifier's weights change only at the step of train's outer
\* optimizer, never during a call of FGSM.attack or PGD.attack (train's own
\* attack included); the optimizer of PGD.attack changes the perturbation's
\* parameters and nothing else; the outer optimizer's step changes no
\* parameter of the perturbation
C17_ParameterOwnership ==
    [][/\ net_weights' # net_weights =>
            (t_pc = "opt_step" /\ t_pc' = "fetch")
       /\ (a_pc # "idle" \/ t_pc = "attack") => net_weights' = net_weights
       /\ t_pc = "opt_step" => perturbation' = perturbation
       /\ (a_pc = "pgd_step" /\ ~call.signed) =>
            /\ perturbation'.grad = perturbation.grad
            /\ perturbation'.originals = perturbation.originals
            /\ Len(perturbation'.params) = Len(perturbation.params)
            /\ examples' = examples
            /\ loss_ref' = loss_ref]_vars

\* C17 happens: the outer optimizer has stepped while the attack's
\* perturbation, with a parameter away from zero, was there to be changed
C17_Witness ==
    /\ t_pc = "fetch"
    /\ net_weights = 1
    /\ \E i \in DOMAIN perturbation.params : perturbation.params[i] # 0

\* C18: with checkpoint cadence c = verbosity_epoch, a completed run of train
\* has saved the classifier once per c completed epochs, so a run of at least
\* c epochs has at least one save, and a run of verbosity 'high' (c = 1) has
\* a save for each of its epochs
C18_CheckpointCadence ==
    t_pc = "done" =>
        LET c == verbosity_epoch[t_cfg.verbosity]
        IN  /\ Cardinality(checkpoints) = t_cfg.num_epochs \div c
            /\ t_cfg.num_epochs >= c => checkpoints # {}
            /\ t_cfg.verbosity = "high" =>
                 checkpoints = 0..(t_cfg.num_epochs - 1)

=============================================================================
